---- MODULE Spec2Model ----
(***************************************************************************)
(* Model of packit_service/worker/events/event.py: the abstract event      *)
(* classes (Event, AbstractForgeIndependentEvent), the transport form      *)
(* EventData, the override resolver (most recent record per target) and    *)
(* the trigger correlation done through get-or-create.                     *)
(*                                                                         *)
(* Python's Optional[T] is modelled as a sequence of length at most one:   *)
(* None is <<>> and a value x is <<x>>.                                    *)
(***************************************************************************)
EXTENDS Integers, Sequences, FiniteSets, TLC

VARIABLES
    models,     \* the iterable of build/test records handed to the override resolver
    tret,       \* what the last override-resolver call returned: [op, arg, val]
    ev,         \* one event instance: [cls, d], d its __dict__
    triggers,   \* the persisted trigger table: a set of rows
    calls,      \* how often each resolver / collaborator was invoked for ev
    race,       \* workers correlating decoded events against the trigger table
    ret,        \* the last operation on ev: its name, result, error and pre-state
    wire,       \* the mapping last produced by get_dict (none before)
    data,       \* the EventData last decoded from wire (none before)
    ops,        \* number of operations done on ev
    registry    \* the static trigger-type table: <<class, type>> in registration order

vars == <<models, tret, ev, triggers, calls, race, ret, wire, data, ops, registry>>
evvars == <<ev, triggers, calls, race, ret, wire, data, ops, registry>>

None == <<>>
Some(x) == <<x>>
IsNone(o) == o = <<>>
Val(o) == o[1]

----------------------------------------------------------------------------
(* Bounds of the model.                                                    *)

\* longest record sequence handed to the override resolver
MaxModels == 3
\* submission times are drawn from 1..MaxTime
MaxTime == 2

----------------------------------------------------------------------------
(* Override resolver: records and the most recent record per target.       *)

Targets == {"fedora-rawhide-x86_64", "f34"}
Statuses == {"failure", "success"}
StatusLists == {<<>>, <<"failure">>, <<"failure", "error">>, <<"success">>}
ModelClasses == {"CoprBuildTargetModel", "TFTTestRunTargetModel"}

\* A build record carries build_submitted_time, a test-run record submitted_time.
BuildRecords ==
    [cls : {"CoprBuildTargetModel"}, target : Targets, status : Statuses,
     build_submitted_time : 1..MaxTime]
TestRecords ==
    [cls : {"TFTTestRunTargetModel"}, target : Targets, status : Statuses,
     submitted_time : 1..MaxTime]

SeqsUpTo(S, n) == UNION {[1..k -> S] : k \in 0..n}

_get_submitted_time_from_model(model) ==
    IF model.cls = "CoprBuildTargetModel"
    THEN model.build_submitted_time
    ELSE model.submitted_time

\* A Python dict, insertion ordered: a sequence of <<key, value>> pairs.
DictHas(d, k) == \E i \in DOMAIN d : d[i][1] = k
DictGet(d, k) ==
    IF DictHas(d, k) THEN Some(d[CHOOSE i \in DOMAIN d : d[i][1] = k][2]) ELSE None
DictSet(d, k, v) ==
    IF DictHas(d, k)
    THEN [i \in DOMAIN d |-> IF d[i][1] = k THEN <<k, v>> ELSE d[i]]
    ELSE Append(d, <<k, v>>)
DictValues(d) == [i \in DOMAIN d |-> d[i][2]]

\* The mutant: the comparison of submission times is dropped, the last record wins.
ShouldReplaceAlways(most_recent_models, model) == TRUE

\* The mutant: a record of the same submission time replaces the one kept.
ShouldReplaceOnTie(most_recent_models, model) ==
    \/ IsNone(DictGet(most_recent_models, model.target))
    \/ _get_submitted_time_from_model(Val(DictGet(most_recent_models, model.target)))
         <= _get_submitted_time_from_model(model)

\* The condition under which the loop stores `model` for its target.
ShouldReplace(most_recent_models, model) ==
    \/ IsNone(DictGet(most_recent_models, model.target))
    \/ _get_submitted_time_from_model(Val(DictGet(most_recent_models, model.target)))
         < _get_submitted_time_from_model(model)

RECURSIVE MostRecentLoop(_, _, _)
MostRecentLoop(ms, i, most_recent_models) ==
    IF i > Len(ms) THEN most_recent_models
    ELSE MostRecentLoop(ms, i + 1,
            IF ShouldReplace(most_recent_models, ms[i])
            THEN DictSet(most_recent_models, ms[i].target, ms[i])
            ELSE most_recent_models)

get_most_recent_targets(ms) == DictValues(MostRecentLoop(ms, 1, <<>>))

InList(x, l) == \E i \in DOMAIN l : l[i] = x

\* The mutant: every record is filtered, not only the most recent one of a target.
FilteredTargetsOfAll(ms, statuses_to_filter_with) ==
    {ms[i].target : i \in {j \in DOMAIN ms : InList(ms[j].status, statuses_to_filter_with)}}

\* failed_models_targets as the loop of the filter builds it.
FilteredTargets(ms, statuses_to_filter_with) ==
    LET recent == get_most_recent_targets(ms)
    IN {recent[i].target :
            i \in {j \in DOMAIN recent : InList(recent[j].status, statuses_to_filter_with)}}

_filter_most_recent_models_targets_by_status(ms, statuses_to_filter_with) ==
    LET failed_models_targets == FilteredTargets(ms, statuses_to_filter_with)
    IN IF failed_models_targets # {} THEN Some(failed_models_targets) ELSE None

----------------------------------------------------------------------------
(* The override resolver applied to every bounded record sequence.         *)

NoCall == [op |-> "none", arg |-> <<>>, val |-> <<>>]

InitTargets ==
    /\ models \in SeqsUpTo(BuildRecords, MaxModels) \cup SeqsUpTo(TestRecords, MaxModels)
    /\ tret = NoCall
    /\ ev = None /\ triggers = {} /\ calls = None /\ ret = None
    /\ wire = None /\ data = None /\ ops = 0 /\ race = None
    /\ registry = <<>>

CallGetMostRecentTargets ==
    /\ tret' = [op |-> "get_most_recent_targets", arg |-> <<>>,
                val |-> get_most_recent_targets(models)]
    /\ UNCHANGED <<models, evvars>>

CallFilterByStatus ==
    \E statuses \in StatusLists :
        /\ tret' = [op |-> "filter", arg |-> statuses,
                    val |-> _filter_most_recent_models_targets_by_status(models, statuses)]
        /\ UNCHANGED <<models, evvars>>

NextTargets == CallGetMostRecentTargets \/ CallFilterByStatus

SpecTargets == InitTargets /\ [][NextTargets]_vars

----------------------------------------------------------------------------
(* Claims about the override resolver.                                     *)

TargetsIn(ms) == {ms[i].target : i \in DOMAIN ms}
TimeOf(r) == IF "build_submitted_time" \in DOMAIN r THEN r.build_submitted_time
             ELSE r.submitted_time

\* C2: get_most_recent_targets returns exactly one record per distinct target of
\* the input, each taken from the input, and the record returned for a target was
\* submitted no earlier than any input record of that target.
C2_OnePerTargetLatest ==
    tret.op = "get_most_recent_targets" =>
        LET out == tret.val IN
        /\ \A t \in TargetsIn(models) :
               Cardinality({j \in DOMAIN out : out[j].target = t}) = 1
        /\ \A j \in DOMAIN out :
               /\ \E i \in DOMAIN models : models[i] = out[j]
               /\ \A i \in DOMAIN models :
                      models[i].target = out[j].target => TimeOf(out[j]) >= TimeOf(models[i])

\* C2 witness: a target with an older record after its newer one, and a second target.
C2_Witness ==
    /\ tret.op = "get_most_recent_targets"
    /\ Len(models) = 3
    /\ Len(tret.val) = 2
    /\ \E i, j \in DOMAIN models :
           /\ i < j
           /\ models[i].target = models[j].target
           /\ TimeOf(models[i]) > TimeOf(models[j])

\* The representative of target t: among its latest records, the first in input order.
LatestFirst(ms, t) ==
    LET mine == {i \in DOMAIN ms : ms[i].target = t}
        top == CHOOSE m \in {TimeOf(ms[i]) : i \in mine} :
                   \A i \in mine : TimeOf(ms[i]) <= m
        first == CHOOSE i \in mine :
                   /\ TimeOf(ms[i]) = top
                   /\ \A k \in mine : TimeOf(ms[k]) = top => i <= k
    IN ms[first]

\* C3: the filter returns exactly the targets whose most recently submitted record
\* (the first of them in input order when several share the latest time) has a
\* listed status, and none instead of an empty set.
C3_FilterMostRecent ==
    tret.op = "filter" =>
        LET want == {t \in TargetsIn(models) : InList(LatestFirst(models, t).status, tret.arg)}
        IN /\ tret.val = (IF want = {} THEN None ELSE Some(want))
           /\ tret.val # Some({})

\* C3 witness: a listed status on an older record, superseded by an unlisted newer one.
C3_Witness ==
    /\ tret.op = "filter"
    /\ tret.arg = <<"failure">>
    /\ tret.val = None
    /\ \E i, j \in DOMAIN models :
           /\ models[i].target = models[j].target
           /\ models[i].status = "failure"
           /\ models[j].status = "success"
           /\ TimeOf(models[i]) < TimeOf(models[j])

\* C14: the record get_most_recent_targets returns for a target is, among the
\* records of the target with the latest submission time, the one that comes first
\* in the input: a later record replaces the one kept only when it was submitted
\* strictly later.
C14_TieKeepsFirst ==
    tret.op = "get_most_recent_targets" =>
        \A j \in DOMAIN tret.val :
            tret.val[j] = LatestFirst(models, tret.val[j].target)

\* C14 witness: two records of one target share the latest submission time and
\* differ in status; the first of them was returned.
C14_Witness ==
    /\ tret.op = "get_most_recent_targets"
    /\ Len(tret.val) = 1
    /\ \E i, j \in DOMAIN models :
           /\ i < j
           /\ models[i].target = models[j].target
           /\ TimeOf(models[i]) = TimeOf(models[j])
           /\ TimeOf(models[i]) = MaxTime
           /\ models[i].status # models[j].status
           /\ tret.val[1] = models[i]

----------------------------------------------------------------------------
(* Event classes.  Event and AbstractForgeIndependentEvent are defined in  *)
(* event.py; the concrete classes are exported by events/__init__.py and   *)
(* defined in the forge modules.                                           *)

EventClasses ==
    {"InstallationEvent", "AbstractForgeIndependentEvent",
     "PullRequestGithubEvent", "PullRequestCommentGithubEvent",
     "PushGitHubEvent", "ReleaseEvent", "TestingFarmResultsEvent",
     "CheckRerunCommitEvent", "CheckRerunPullRequestEvent", "CheckRerunReleaseEvent"}

CheckRerunClasses ==
    {"CheckRerunCommitEvent", "CheckRerunPullRequestEvent", "CheckRerunReleaseEvent"}

\* The db-trigger mixins, each a direct subclass of _AddDbTrigger.
AddDbTriggerClasses ==
    {"AddReleaseDbTrigger", "AddPullRequestDbTrigger", "AddBranchPushDbTrigger",
     "AddIssueDbTrigger"}

\* cls.mro(): the class, its ancestors in resolution order, and object.
Mro(cls) ==
    CASE cls = "InstallationEvent" -> <<"InstallationEvent", "Event", "object">>
      [] cls = "AbstractForgeIndependentEvent" ->
            <<"AbstractForgeIndependentEvent", "Event", "object">>
      [] cls = "PullRequestGithubEvent" ->
            <<"PullRequestGithubEvent", "AddPullRequestDbTrigger", "_AddDbTrigger",
              "AbstractGithubEvent", "AbstractForgeIndependentEvent", "Event", "object">>
      [] cls = "PullRequestCommentGithubEvent" ->
            <<"PullRequestCommentGithubEvent", "AbstractPRCommentEvent",
              "AddPullRequestDbTrigger", "_AddDbTrigger", "AbstractCommentEvent",
              "AbstractGithubEvent", "AbstractForgeIndependentEvent", "Event", "object">>
      [] cls = "PushGitHubEvent" ->
            <<"PushGitHubEvent", "AddBranchPushDbTrigger", "_AddDbTrigger",
              "AbstractGithubEvent", "AbstractForgeIndependentEvent", "Event", "object">>
      [] cls = "ReleaseEvent" ->
            <<"ReleaseEvent", "AddReleaseDbTrigger", "_AddDbTrigger",
              "AbstractGithubEvent", "AbstractForgeIndependentEvent", "Event", "object">>
      [] cls = "TestingFarmResultsEvent" ->
            <<"TestingFarmResultsEvent", "AbstractForgeIndependentEvent", "Event", "object">>
      [] cls \in CheckRerunClasses ->
            <<cls, "CheckRerunEvent", "AbstractGithubEvent",
              "AbstractForgeIndependentEvent", "Event", "object">>

\* The classes an instance of cls is an instance of (cls itself and its ancestors).
Ancestors(cls) == {Mro(cls)[i] : i \in DOMAIN Mro(cls)}

isinstance(cls, event_cls) == event_cls \in Ancestors(cls)

IsForgeIndependent(cls) == isinstance(cls, "AbstractForgeIndependentEvent")

\* MAP_EVENT_TO_JOB_CONFIG_TRIGGER_TYPE in registration (import) order: the classes
\* decorated with use_for_job_config_trigger.
MAP_EVENT_TO_JOB_CONFIG_TRIGGER_TYPE ==
    << <<"PullRequestGithubEvent", "pull_request">>,
       <<"CheckRerunCommitEvent", "commit">>,
       <<"CheckRerunPullRequestEvent", "pull_request">>,
       <<"CheckRerunReleaseEvent", "release">> >>

----------------------------------------------------------------------------
(* Python values.                                                          *)

\* dict.get(key): the value, or None for a missing key.
Get(d, k) == IF k \in DOMAIN d THEN d[k] ELSE None
\* dict.pop(key) of a key that is present, and dict.pop(key, None).
Pop(d, k) == [x \in DOMAIN d \ {k} |-> d[x]]

\* bool(x) for an optional string, integer, set, list and object.
TruthyStr(o) == o # None /\ Val(o) # ""
TruthyInt(o) == o # None /\ Val(o) # 0
TruthySet(o) == o # None /\ Val(o) # {}
TruthyList(o) == o # None /\ Val(o) # <<>>
TruthyObj(o) == o # None

\* The result of a call: the state it leaves, its value, and the error it raised.
Ok(st, v) == [st |-> st, val |-> v, exc |-> ""]
Raise(st, e) == [st |-> st, val |-> None, exc |-> e]
Bump(st, name) == [st EXCEPT !.calls[name] = @ + 1]
SetAttr(st, k, v) == [st EXCEPT !.ev.d[k] = v]

NoCalls ==
    [get_project |-> 0, get_base_project |-> 0, get_package_config |-> 0,
     loader |-> 0, get_db_trigger |-> 0, get_or_create |-> 0,
     get_all_by_commit |-> 0, trigger_reads |-> 0, reads_of_none |-> 0]

----------------------------------------------------------------------------
(* Collaborators: trigger storage, forge client.                           *)

ProjectUrls == {"https://github.com/packit/hello-world", "https://github.com/packit"}

\* ServiceConfig.get_project(url): the project handle of a url.
ProjectHandle(url) ==
    [project_url |-> url, namespace |-> Some("packit"),
     repo |-> IF url = "https://github.com/packit" THEN None ELSE Some("hello-world")]

TriggerTypeOfKind(kind) ==
    CASE kind = "pull_request" -> Some("pull_request")
      [] kind = "branch_push" -> Some("commit")
      [] kind = "release" -> Some("release")
      [] kind = "issue" -> None

\* The natural key of a trigger of one kind: the project and the kind's own field,
\* which storage takes as it is given, none included.
NaturalKeyOf(kind, project_url, ident) ==
    [kind |-> kind, project_url |-> project_url,
     pr_id |-> IF kind = "pull_request" THEN ident ELSE None,
     branch_name |-> IF kind = "branch_push" THEN ident ELSE None,
     tag_name |-> IF kind = "release" THEN ident ELSE None,
     issue_id |-> IF kind = "issue" THEN ident ELSE None]

NaturalKey(kind, project_url, ident) == NaturalKeyOf(kind, project_url, Some(ident))

\* A trigger row; key is its natural key.
TriggerRow(id, key) ==
    [id |-> id, key |-> key,
     project |-> [project_url |-> key.project_url],
     job_config_trigger_type |-> TriggerTypeOfKind(key.kind)]

RowsWithKey(tbl, key) == {r \in tbl : r.key = key}
NextId(tbl) == Cardinality(tbl) + 1

\* The row stored under a natural key, if any.
Lookup(tbl, key) ==
    IF RowsWithKey(tbl, key) # {} THEN Some(CHOOSE r \in RowsWithKey(tbl, key) : TRUE)
    ELSE None

\* The mutant: an insert that no unique constraint guards.
UnguardedInsert(tbl, key) ==
    [tbl |-> tbl \cup {TriggerRow(NextId(tbl), key)},
     row |-> TriggerRow(NextId(tbl), key), created |-> TRUE]

\* The unique-constraint-guarded insert: a key already stored is not stored again,
\* the caller gets the row that is there.
GuardedInsert(tbl, key) ==
    IF Lookup(tbl, key) # None
    THEN [tbl |-> tbl, row |-> Val(Lookup(tbl, key)), created |-> FALSE]
    ELSE [tbl |-> tbl \cup {TriggerRow(NextId(tbl), key)},
          row |-> TriggerRow(NextId(tbl), key), created |-> TRUE]

\* Storage get-or-create when nothing runs in between its lookup and its insert.
get_or_create(st, key) ==
    Ok([Bump(st, "get_or_create") EXCEPT !.triggers = GuardedInsert(st.triggers, key).tbl],
       Some(GuardedInsert(st.triggers, key).row))

\* Storage lookup of the trigger a stored run points at.
TriggerById(tbl, id) ==
    IF \E r \in tbl : r.id = id THEN Some(CHOOSE r \in tbl : r.id = id) ELSE None

----------------------------------------------------------------------------
(* Event and AbstractForgeIndependentEvent: lazy properties.               *)

\* get_db_trigger: Event returns None, AbstractForgeIndependentEvent raises; the
\* pull-request mixin correlates through get-or-create, a Testing Farm result
\* looks its trigger up by the stored run.
get_db_trigger(st) ==
    CASE isinstance(st.ev.cls, "AddPullRequestDbTrigger") ->
           get_or_create(Bump(st, "get_db_trigger"),
                         NaturalKey("pull_request", Val(st.ev.d.project_url),
                                    Val(st.ev.d._pr_id)))
      [] st.ev.cls = "TestingFarmResultsEvent" ->
           Ok(Bump(st, "get_db_trigger"),
              TriggerById(st.triggers, Val(st.ev.d.pipeline_id)))
      [] ~IsForgeIndependent(st.ev.cls) -> Ok(Bump(st, "get_db_trigger"), None)
      [] OTHER -> Raise(Bump(st, "get_db_trigger"), "NotImplementedError")

\* `self._x = self.get_x()`: the resolver's result r is stored, an error passes on.
Cache(r, attr) ==
    IF r.exc # "" THEN r ELSE Ok(SetAttr(r.st, attr, r.val), r.val)

\* Event.db_trigger
db_trigger(st) ==
    IF ~TruthyObj(st.ev.d._db_trigger)
    THEN Cache(get_db_trigger(st), "_db_trigger")
    ELSE Ok(st, st.ev.d._db_trigger)

\* `self.db_trigger.project.project_url`, r2 the value of self.db_trigger
TriggersProjectUrl(r2) ==
    IF r2.exc # "" THEN r2
    ELSE IF r2.val = None THEN Raise(Bump(r2.st, "reads_of_none"), "AttributeError")
    ELSE Ok(Bump(r2.st, "trigger_reads"), Some(Val(r2.val).project.project_url))

\* `self.db_trigger.project.project_url if self.db_trigger else None`,
\* r the value of the condition's self.db_trigger
ProjectUrlOfTrigger(r) ==
    IF r.exc # "" THEN r
    ELSE IF ~TruthyObj(r.val) THEN Ok(r.st, None)
    ELSE TriggersProjectUrl(db_trigger(r.st))

\* The mutant: a forge client that refuses to resolve a missing url.
ResolveProjectOrRaise(u) ==
    IF u.exc # "" THEN u
    ELSE IF u.val = None THEN Raise(u.st, "ValueError")
    ELSE Ok(u.st, Some(ProjectHandle(Val(u.val))))

\* ServiceConfig.get_service_config().get_project(url=...), u the url if any
ResolveProject(u) ==
    IF u.exc # "" \/ u.val = None THEN u ELSE Ok(u.st, Some(ProjectHandle(Val(u.val))))

\* The mutant: only project_url is looked at, the trigger is never asked.
get_project_from_url_only(st) ==
    IF TruthyStr(st.ev.d.project_url)
    THEN ResolveProject(Ok(Bump(st, "get_project"), st.ev.d.project_url))
    ELSE Ok(Bump(st, "get_project"), None)

\* AbstractForgeIndependentEvent.get_project
get_project(st) ==
    IF TruthyStr(st.ev.d.project_url)
    THEN ResolveProject(Ok(Bump(st, "get_project"), st.ev.d.project_url))
    ELSE ResolveProject(ProjectUrlOfTrigger(db_trigger(Bump(st, "get_project"))))

\* AbstractForgeIndependentEvent.project; Event.project raises.
project(st) ==
    IF ~IsForgeIndependent(st.ev.cls) THEN Raise(st, "NotImplementedError")
    ELSE IF ~TruthyObj(st.ev.d._project)
    THEN Cache(get_project(st), "_project")
    ELSE Ok(st, st.ev.d._project)

\* get_base_project: None, reimplemented in the pull-request events.
get_base_project(st) ==
    IF isinstance(st.ev.cls, "AddPullRequestDbTrigger")
    THEN Ok(Bump(st, "get_base_project"), Some(ProjectHandle(Val(st.ev.d.project_url))))
    ELSE Ok(Bump(st, "get_base_project"), None)

\* AbstractForgeIndependentEvent.base_project; Event.base_project raises.
base_project(st) ==
    IF ~IsForgeIndependent(st.ev.cls) THEN Raise(st, "NotImplementedError")
    ELSE IF ~TruthyObj(st.ev.d._base_project)
    THEN Cache(get_base_project(st), "_base_project")
    ELSE Ok(st, st.ev.d._base_project)

\* What PackageConfigGetter.get_package_config_from_repo does on one call.
LoaderOutcomes == {"config", "none", "error"}

\* PackageConfigGetter.get_package_config_from_repo, and upstream_project_url set
\* on the config it returned.
LoadPackageConfig(st, outcome) ==
    CASE outcome = "error" -> Raise(Bump(st, "loader"), "PackitConfigException")
      [] outcome = "none" -> Ok(Bump(st, "loader"), None)
      [] outcome = "config" ->
           Ok(Bump(st, "loader"), Some([upstream_project_url |-> st.ev.d.project_url]))

\* get_package_config, step by step: self.project and self.base_project are read
\* for the log line (with self.commit_sha), then base_project and project again
\* as arguments of the config loader.
PackageConfigArgProject(r, outcome) ==
    IF r.exc # "" THEN r ELSE LoadPackageConfig(r.st, outcome)
PackageConfigArgBase(r, outcome) ==
    IF r.exc # "" THEN r ELSE PackageConfigArgProject(project(r.st), outcome)
PackageConfigLogBase(r, outcome) ==
    IF r.exc # "" THEN r
    ELSE IF "commit_sha" \notin DOMAIN r.st.ev.d THEN Raise(r.st, "AttributeError")
    ELSE PackageConfigArgBase(base_project(r.st), outcome)
PackageConfigLogProject(r, outcome) ==
    IF r.exc # "" THEN r ELSE PackageConfigLogBase(base_project(r.st), outcome)

\* AbstractForgeIndependentEvent.get_package_config
get_package_config(st, outcome) ==
    PackageConfigLogProject(project(Bump(st, "get_package_config")), outcome)

\* `self._package_config = ...; self._package_config_searched = True`
CacheSearched(r) ==
    IF r.exc # "" THEN r
    ELSE Ok(SetAttr(SetAttr(r.st, "_package_config", r.val),
                    "_package_config_searched", Some(TRUE)), r.val)

\* AbstractForgeIndependentEvent.package_config; Event.package_config raises.
package_config(st, outcome) ==
    IF ~IsForgeIndependent(st.ev.cls) THEN Raise(st, "NotImplementedError")
    ELSE IF ~Val(st.ev.d._package_config_searched) /\ ~TruthyObj(st.ev.d._package_config)
    THEN CacheSearched(get_package_config(st, outcome))
    ELSE Ok(st, st.ev.d._package_config)

\* The mutant: the classes of the event are tried from the most specific one, and
\* the type of the first one that is registered is taken.
DeclaredTypeMostSpecific(m, cls) ==
    LET mro == Mro(cls)
        hits == {i \in DOMAIN mro : \E k \in DOMAIN m : m[k][1] = mro[i]}
        first == CHOOSE i \in hits : \A j \in hits : i <= j
    IN IF hits = {} THEN None
       ELSE Some(m[CHOOSE k \in DOMAIN m : m[k][1] = mro[first]][2])

\* The loop over the items of the table m: the type of the first entry, in
\* registration order, whose class the event is an instance of, if any.
DeclaredTypeIn(m, cls) ==
    LET hits == {i \in DOMAIN m : isinstance(cls, m[i][1])}
    IN IF hits = {} THEN None
       ELSE Some(m[CHOOSE i \in hits : \A j \in hits : i <= j][2])

\* The same in the table the event modules register.
DeclaredType(cls) == DeclaredTypeIn(MAP_EVENT_TO_JOB_CONFIG_TRIGGER_TYPE, cls)

\* `self.db_trigger.job_config_trigger_type`, r2 the value of self.db_trigger
TriggersType(r2) ==
    IF r2.exc # "" THEN r2
    ELSE IF r2.val = None THEN Raise(Bump(r2.st, "reads_of_none"), "AttributeError")
    ELSE Ok(Bump(r2.st, "trigger_reads"), Val(r2.val).job_config_trigger_type)

\* The mutant: the trigger's type is read without looking whether a trigger resolved.
TypeOfTriggerUnguarded(r) ==
    IF r.exc # "" THEN r ELSE TriggersType(db_trigger(r.st))

\* The fallback of job_config_trigger_type, r the value of `self.db_trigger`.
TypeOfTrigger(r) ==
    IF r.exc # "" THEN r
    ELSE IF ~TruthyObj(r.val) THEN Ok(r.st, None)
    ELSE TriggersType(db_trigger(r.st))

\* The mutant: the static table is skipped, the trigger is always consulted.
job_config_trigger_type_lookup_only(st) == TypeOfTrigger(db_trigger(st))

\* Event.job_config_trigger_type
job_config_trigger_type(st) ==
    IF DeclaredTypeIn(st.registry, st.ev.cls) # None
    THEN Ok(st, DeclaredTypeIn(st.registry, st.ev.cls))
    ELSE TypeOfTrigger(db_trigger(st))

----------------------------------------------------------------------------
(* Target overrides of an event.                                           *)

IsBuildRecord(m) == m.cls = "CoprBuildTargetModel"
IsTestRecord(m) == m.cls = "TFTTestRunTargetModel"

\* The mutant: the records are queried whether or not there is a commit_sha.
get_all_tf_targets_by_status_unchecked(st, statuses_to_filter_with) ==
    IF "commit_sha" \notin DOMAIN st.ev.d THEN Raise(st, "AttributeError")
    ELSE Ok(Bump(st, "get_all_by_commit"),
            _filter_most_recent_models_targets_by_status(
                SelectSeq(st.models, IsTestRecord), statuses_to_filter_with))

\* AbstractForgeIndependentEvent.get_all_tf_targets_by_status
get_all_tf_targets_by_status(st, statuses_to_filter_with) ==
    IF "commit_sha" \notin DOMAIN st.ev.d THEN Raise(st, "AttributeError")
    ELSE IF st.ev.d.commit_sha = None THEN Ok(st, None)
    ELSE Ok(Bump(st, "get_all_by_commit"),
            _filter_most_recent_models_targets_by_status(
                SelectSeq(st.models, IsTestRecord), statuses_to_filter_with))

\* `self.project.repo is None`, then the filter over the commit's build records;
\* r is the value of self.project.
BuildTargetsOfProject(r, statuses_to_filter_with) ==
    IF r.exc # "" THEN r
    ELSE IF r.val = None THEN Raise(r.st, "AttributeError")
    ELSE IF Val(r.val).repo = None THEN Ok(r.st, None)
    ELSE Ok(Bump(r.st, "get_all_by_commit"),
            _filter_most_recent_models_targets_by_status(
                SelectSeq(r.st.models, IsBuildRecord), statuses_to_filter_with))

\* AbstractForgeIndependentEvent.get_all_build_targets_by_status
get_all_build_targets_by_status(st, statuses_to_filter_with) ==
    IF "commit_sha" \notin DOMAIN st.ev.d THEN Raise(st, "AttributeError")
    ELSE IF st.ev.d.commit_sha = None THEN Ok(st, None)
    ELSE BuildTargetsOfProject(project(st), statuses_to_filter_with)

\* A check-rerun event names one check, "<job>:<target>", and narrows the override
\* of that job kind to the one target.
CheckRerunOverride(e, jobs) ==
    IF Val(e.d.check_name_job) \in jobs THEN Some({Val(e.d.check_name_target)}) ELSE None

\* A pull-request comment asking to rebuild or retest what failed recomputes the
\* override from the stored records of the commit.
CommentOverride(st, word) ==
    IF word = "rebuild-failed" /\ Val(st.ev.d.comment) = "/packit rebuild-failed"
    THEN get_all_build_targets_by_status(st, <<"failure">>)
    ELSE IF word = "retest-failed" /\ Val(st.ev.d.comment) = "/packit retest-failed"
    THEN get_all_tf_targets_by_status(st, <<"failure", "error">>)
    ELSE Ok(st, None)

\* Event.build_targets_override: None unless a re-run style event overrides it.
build_targets_override(st) ==
    IF isinstance(st.ev.cls, "CheckRerunEvent")
    THEN Ok(st, CheckRerunOverride(st.ev, {"rpm-build", "production-build"}))
    ELSE IF st.ev.cls = "PullRequestCommentGithubEvent"
    THEN CommentOverride(st, "rebuild-failed")
    ELSE Ok(st, None)

\* Event.tests_targets_override
tests_targets_override(st) ==
    IF isinstance(st.ev.cls, "CheckRerunEvent")
    THEN Ok(st, CheckRerunOverride(st.ev, {"testing-farm"}))
    ELSE IF st.ev.cls = "PullRequestCommentGithubEvent"
    THEN CommentOverride(st, "retest-failed")
    ELSE Ok(st, None)

\* Event.branches_override
branches_override(st) ==
    IF isinstance(st.ev.cls, "CheckRerunEvent")
    THEN Ok(st, CheckRerunOverride(st.ev, {"propose-downstream"}))
    ELSE Ok(st, None)

\* self.<name> for one of the three override properties
OverrideProperty(name, st) ==
    CASE name = "build_targets_override" -> build_targets_override(st)
      [] name = "tests_targets_override" -> tests_targets_override(st)
      [] name = "branches_override" -> branches_override(st)

----------------------------------------------------------------------------
(* Event codec: Event.get_dict and EventData.from_event_dict.              *)

\* A datetime object: a number of ticks since the epoch, TicksPerSecond ticks a second.
TicksPerSecond == 2
DateTime(t) == [ticks |-> t]
\* int(datetime.timestamp())
EpochSeconds(dt) == dt.ticks \div TicksPerSecond
\* The mutant: the seconds are read as a time of a zone one second east of UTC.
FromTimestampOffZone(seconds) == DateTime(seconds * TicksPerSecond + TicksPerSecond)

\* datetime.fromtimestamp(seconds, timezone.utc)
FromTimestamp(seconds) == DateTime(seconds * TicksPerSecond)

Put(d, k, v) == [x \in DOMAIN d \cup {k} |-> IF x = k THEN v ELSE d[x]]

Range(l) == {l[i] : i \in DOMAIN l}
\* The orders in which iterating a set may yield its elements.
Orders(S) == {l \in [1..Cardinality(S) -> S] : Range(l) = S}
\* list(set), the elements in the order `order` ranks them.
ListOf(S, order) ==
    CHOOSE l \in Orders(S) :
        \A i, j \in DOMAIN l :
            i < j => (CHOOSE a \in DOMAIN order : order[a] = l[i])
                       < (CHOOSE b \in DOMAIN order : order[b] = l[j])

\* The collections an object's __dict__ holds: the raw payload and the override sets.
IsCollection(d, k) ==
    k \in {"event_dict", "build_targets_override", "tests_targets_override",
           "branches_override"} /\ d[k] # None

\* The mutant: copy.copy, a new mapping whose values are the objects of d.
shallow_copy(d) == [val |-> d, shares |-> {k \in DOMAIN d : IsCollection(d, k)}]

\* copy.deepcopy(d): an equal mapping that shares no object with d.  shares names
\* what the copy has in common with d: "__dict__" for the mapping itself, a key for
\* the collection stored under it.
deepcopy(d) == [val |-> d, shares |-> {}]

\* The object's __dict__ after statements wrote the mapping `written` through a copy
\* that shares `shares` with it.
WrittenThrough(d, written, shares) == IF "__dict__" \in shares THEN written ELSE d

\* The object's __dict__ after the caller changed the collection under k of a
\* mapping, now m, that shares `shares` with it.
ChangedThrough(d, m, k, shares) ==
    IF "__dict__" \in shares THEN m
    ELSE IF k \in shares THEN [d EXCEPT ![k] = m[k]]
    ELSE d

\* d["event_type"] = self.__class__.__name__
SetEventType(d, cls) == Put(d, "event_type", Some(cls))

\* The mutant: the cached trigger is not looked at, trigger_id is always None.
SetTriggerIdNone(d, self) == Pop(Put(d, "trigger_id", None), "_db_trigger")

\* d["trigger_id"] = self._db_trigger.id if self._db_trigger else None, and
\* d.pop("_db_trigger")
SetTriggerId(d, self) ==
    Pop(Put(d, "trigger_id",
            IF TruthyObj(self._db_trigger) THEN Some(Val(self._db_trigger).id) ELSE None),
        "_db_trigger")

\* The mutant: the timestamps are rounded up to the next whole second.
SetTimesRoundedUp(d) ==
    Put(Put(d, "created_at",
            Some((Val(d.created_at).ticks + TicksPerSecond - 1) \div TicksPerSecond)),
        "task_accepted_time",
        IF Get(d, "task_accepted_time") # None
        THEN Some((Val(Get(d, "task_accepted_time")).ticks + TicksPerSecond - 1)
                  \div TicksPerSecond)
        ELSE None)

\* created_at and task_accepted_time as whole epoch seconds
SetTimes(d) ==
    Put(Put(d, "created_at", Some(EpochSeconds(Val(d.created_at)))),
        "task_accepted_time",
        IF Get(d, "task_accepted_time") # None
        THEN Some(EpochSeconds(Val(Get(d, "task_accepted_time")))) ELSE None)

\* The mapping up to the timestamps: a deep copy of __dict__ with event_type,
\* trigger_id, created_at and task_accepted_time.
DictHead(st) ==
    SetTimes(SetTriggerId(SetEventType(deepcopy(st.ev.d).val, st.ev.cls), st.ev.d))

\* The mutant: the project url is copied as it is, without the trigger's url.
ProjectUrlNoFallback(st, d) == Ok(st, Get(d, "project_url"))

\* d.get("project_url") or (self.db_trigger.project.project_url if self.db_trigger else None)
ProjectUrlOrTriggers(st, d) ==
    IF TruthyStr(Get(d, "project_url")) THEN Ok(st, Get(d, "project_url"))
    ELSE ProjectUrlOfTrigger(db_trigger(st))

\* d["project_url"] = u; the result carries the mapping built so far.
SetProjectUrl(d, u) ==
    IF u.exc # "" THEN u ELSE Ok(u.st, Put(d, "project_url", u.val))

\* The mutant: the override is left out of the mapping.
WriteOverrideDropped(d, name, b2, order) ==
    IF b2.exc # "" THEN b2 ELSE Ok(b2.st, d)

\* d[name] = list(self.<name>), b2 the value of self.<name>
WriteOverride(d, name, b2, order) ==
    IF b2.exc # "" THEN b2 ELSE Ok(b2.st, Put(d, name, Some(ListOf(Val(b2.val), order))))

\* `if self.<name>:`, b1 the value of self.<name>
IfOverride(d, name, b1, order) ==
    IF b1.exc # "" THEN b1
    ELSE IF ~TruthySet(b1.val) THEN Ok(b1.st, d)
    ELSE WriteOverride(d, name, OverrideProperty(name, b1.st), order)

\* One of the three override statements, r carrying the mapping built so far.
EncodeOverride(r, name, order) ==
    IF r.exc # "" THEN r ELSE IfOverride(r.val, name, OverrideProperty(name, r.st), order)

\* Event.get_dict; the value is the mapping
Event_get_dict(st, order) ==
    EncodeOverride(
        EncodeOverride(
            EncodeOverride(
                SetProjectUrl(DictHead(st), ProjectUrlOrTriggers(st, DictHead(st))),
                "build_targets_override", order),
            "tests_targets_override", order),
        "branches_override", order)

\* The mutant: the cached package config is left in the mapping.
PopHandlesButPackageConfig(r) ==
    IF r.exc # "" THEN r ELSE Ok(r.st, Pop(Pop(r.val, "_project"), "_base_project"))

\* result.pop("_project"), result.pop("_base_project"), result.pop("_package_config")
PopHandles(r) ==
    IF r.exc # "" THEN r
    ELSE Ok(r.st, Pop(Pop(Pop(r.val, "_project"), "_base_project"), "_package_config"))

\* AbstractForgeIndependentEvent.get_dict, Event.get_dict for other events
get_dict(st, order) ==
    IF IsForgeIndependent(st.ev.cls) THEN PopHandles(Event_get_dict(st, order))
    ELSE Event_get_dict(st, order)

\* The mutant: `set(x) if x is not None else None`
OverrideSetOfAnyList(l) == IF l # None THEN Some(Range(Val(l))) ELSE None

\* EventData.__init__: `set(x) if x else None`
OverrideSet(l) == IF TruthyList(l) THEN Some(Range(Val(l))) ELSE None

\* event.get("user_login") or event.get("actor")
ActorOf(event) ==
    IF TruthyStr(Get(event, "user_login")) THEN Get(event, "user_login")
    ELSE Get(event, "actor")

\* The mutant: only the attribute's own spelling is read.
PrIdOfUnderscoreOnly(event) == Get(event, "_pr_id")

\* event.get("_pr_id") or event.get("pr_id")
PrIdOf(event) ==
    IF TruthyInt(Get(event, "_pr_id")) THEN Get(event, "_pr_id")
    ELSE Get(event, "pr_id")

\* EventData.from_event_dict followed by EventData.__init__
from_event_dict(event) ==
    [event_type |-> Get(event, "event_type"),
     actor |-> ActorOf(event),
     trigger_id |-> Get(event, "trigger_id"),
     project_url |-> Get(event, "project_url"),
     tag_name |-> Get(event, "tag_name"),
     git_ref |-> Get(event, "git_ref"),
     pr_id |-> PrIdOf(event),
     commit_sha |-> Get(event, "commit_sha"),
     identifier |-> Get(event, "identifier"),
     event_dict |-> Some(event),
     issue_id |-> Get(event, "issue_id"),
     task_accepted_time |->
         IF TruthyInt(Get(event, "task_accepted_time"))
         THEN Some(FromTimestamp(Val(Get(event, "task_accepted_time")))) ELSE None,
     build_targets_override |-> OverrideSet(Get(event, "build_targets_override")),
     tests_targets_override |-> OverrideSet(Get(event, "tests_targets_override")),
     branches_override |-> OverrideSet(Get(event, "branches_override")),
     _project |-> None, _repo_namespace |-> Some(""), _repo_name |-> Some(""),
     _db_trigger |-> None]

\* d["task_accepted_time"] = int(task_accepted_time.timestamp()) if task_accepted_time
\* else None
SetAcceptedTime(d) ==
    Put(d, "task_accepted_time",
        IF Get(d, "task_accepted_time") # None
        THEN Some(EpochSeconds(Val(Get(d, "task_accepted_time")))) ELSE None)

\* The mutant: an override that is none is written as an empty list.
ListAlways(d, self, name, order) ==
    IF TruthySet(self[name]) THEN Put(d, name, Some(ListOf(Val(self[name]), order)))
    ELSE Put(d, name, Some(<<>>))

\* `if self.<name>: d[name] = list(self.<name>)`
ListIfSet(d, self, name, order) ==
    IF TruthySet(self[name]) THEN Put(d, name, Some(ListOf(Val(self[name]), order)))
    ELSE d

\* EventData.get_dict; the value is the mapping, shares is what it has in common
\* with the event data's own fields.
EventData_get_dict(self, order) ==
    [val |-> Pop(Pop(ListIfSet(ListIfSet(ListIfSet(SetAcceptedTime(deepcopy(self).val),
                                                   self, "build_targets_override", order),
                                         self, "tests_targets_override", order),
                               self, "branches_override", order),
                     "_project"),
                 "_db_trigger"),
     shares |-> deepcopy(self).shares]

----------------------------------------------------------------------------
(* EventData: the trigger correlator, run by workers that share the        *)
(* trigger table.                                                          *)

\* `self.<attr> = <value of r>`, an error passes on
SetField(r, attr) ==
    IF r.exc # "" THEN r ELSE Ok([r.st EXCEPT ![attr] = r.val], r.val)

\* EventData.get_project; with a project_url the trigger is not consulted.
EventData_get_project(self) ==
    IF ~TruthyStr(self.project_url) THEN Ok(self, None)
    ELSE Ok(self, Some(ProjectHandle(Val(self.project_url))))

\* EventData.project
EventData_project(self) ==
    IF ~TruthyObj(self._project) THEN SetField(EventData_get_project(self), "_project")
    ELSE Ok(self, self._project)

\* `self.project.<attr>`, r the value of self.project
ProjectAttr(r, attr) ==
    IF r.exc # "" THEN r
    ELSE IF r.val = None THEN Raise(r.st, "AttributeError")
    ELSE Ok(r.st, Val(r.val)[attr])

\* EventData.repo_namespace
repo_namespace(self) ==
    IF ~TruthyStr(self._repo_namespace)
    THEN SetField(ProjectAttr(EventData_project(self), "namespace"), "_repo_namespace")
    ELSE Ok(self, self._repo_namespace)

\* EventData.repo_name
repo_name(self) ==
    IF ~TruthyStr(self._repo_name)
    THEN SetField(ProjectAttr(EventData_project(self), "repo"), "_repo_name")
    ELSE Ok(self, self._repo_name)

\* getattr(self, name) on an EventData
getattr(self, name) ==
    CASE name = "repo_namespace" -> repo_namespace(self)
      [] name = "repo_name" -> repo_name(self)
      [] name = "project" -> EventData_project(self)
      [] name \in DOMAIN self /\ name \notin {"repo_namespace", "repo_name", "project"} ->
           Ok(self, self[name])
      [] OTHER -> Raise(self, "AttributeError")

\* `_AddDbTrigger in superclass.__bases__`
HasAddDbTriggerBase(superclass) == superclass \in AddDbTriggerClasses

\* The mutant: an event type without trigger backing is taken for a pull request.
_get_db_trigger_class_or_pull_request(self) ==
    IF Val(self.event_type) \notin EventClasses THEN Some("AddPullRequestDbTrigger")
    ELSE LET mro == Mro(Val(self.event_type))
             hits == {i \in 2..(Len(mro) - 1) : HasAddDbTriggerBase(mro[i])}
         IN IF hits = {} THEN Some("AddPullRequestDbTrigger")
            ELSE Some(mro[CHOOSE i \in hits : \A j \in hits : i <= j])

\* EventData._get_db_trigger_class
_get_db_trigger_class(self) ==
    IF Val(self.event_type) \notin EventClasses THEN None
    ELSE LET mro == Mro(Val(self.event_type))
             hits == {i \in 2..(Len(mro) - 1) : HasAddDbTriggerBase(mro[i])}
         IN IF hits = {} THEN None
            ELSE Some(mro[CHOOSE i \in hits : \A j \in hits : i <= j])

\* inspect.getfullargspec(db_trigger_cls.get_or_create).args: the kind's own key
\* field first, then the repository.
GetOrCreateArgs(db_trigger_cls) ==
    CASE db_trigger_cls = "AddPullRequestDbTrigger" ->
           <<"pr_id", "repo_namespace", "repo_name", "project_url">>
      [] db_trigger_cls = "AddBranchPushDbTrigger" ->
           <<"git_ref", "repo_namespace", "repo_name", "project_url">>
      [] db_trigger_cls = "AddReleaseDbTrigger" ->
           <<"tag_name", "repo_namespace", "repo_name", "project_url", "commit_sha">>
      [] db_trigger_cls = "AddIssueDbTrigger" ->
           <<"issue_id", "repo_namespace", "repo_name", "project_url">>

\* result[arg] = getattr(self, arg), g the value of the getattr
AddArg(result, arg, g) ==
    IF g.exc # "" THEN g ELSE Ok(g.st, Put(result, arg, g.val))

\* The loop over the argument names; r carries the event data and result so far.
RECURSIVE ReflectArgs(_, _)
ReflectArgs(args, r) ==
    IF args = <<>> \/ r.exc # "" THEN r
    ELSE ReflectArgs(Tail(args), AddArg(r.val, Head(args), getattr(r.st, Head(args))))

\* The mutant: the branch of a branch-push trigger is read from commit_sha.
_recreate_arguments_from_commit_sha(self, db_trigger_cls) ==
    IF db_trigger_cls = "AddBranchPushDbTrigger"
    THEN AddArg(ReflectArgs(GetOrCreateArgs(db_trigger_cls), Ok(self, <<>>)).val,
                "git_ref", getattr(self, "commit_sha"))
    ELSE ReflectArgs(GetOrCreateArgs(db_trigger_cls), Ok(self, <<>>))

\* EventData._recreate_arguments_of_get_or_create_staticmethod
_recreate_arguments_of_get_or_create_staticmethod(self, db_trigger_cls) ==
    ReflectArgs(GetOrCreateArgs(db_trigger_cls), Ok(self, <<>>))

\* The trigger kind a mixin stores.
KindOf(db_trigger_cls) ==
    CASE db_trigger_cls = "AddPullRequestDbTrigger" -> "pull_request"
      [] db_trigger_cls = "AddBranchPushDbTrigger" -> "branch_push"
      [] db_trigger_cls = "AddReleaseDbTrigger" -> "release"
      [] db_trigger_cls = "AddIssueDbTrigger" -> "issue"

\* The natural key db_trigger_cls.get_or_create(**arguments) stores the trigger under.
KeyOfArgs(db_trigger_cls, arguments) ==
    NaturalKeyOf(KindOf(db_trigger_cls), Val(arguments.project_url),
                 arguments[Head(GetOrCreateArgs(db_trigger_cls))])

\* _recreate_original_db_trigger up to its storage call: none without a trigger
\* class, else the call to make, or the error of the argument reflection.
PrepareGetOrCreate(self, db_trigger_cls) ==
    IF db_trigger_cls = None THEN [self |-> self, key |-> None, exc |-> "", args |-> <<>>]
    ELSE LET a == _recreate_arguments_of_get_or_create_staticmethod(
                      self, Val(db_trigger_cls))
         IN IF a.exc # "" THEN [self |-> a.st, key |-> None, exc |-> a.exc, args |-> <<>>]
            ELSE [self |-> a.st, key |-> Some(KeyOfArgs(Val(db_trigger_cls), a.val)),
                  exc |-> "", args |-> a.val]

\* The storage call of _recreate_original_db_trigger when nothing runs in between
\* its lookup and its insert; call is what PrepareGetOrCreate made of the event data.
\* called tells whether get_or_create was called, args with which arguments.
CorrelateAtOnce(call, tbl) ==
    IF call.exc # ""
    THEN [self |-> call.self, val |-> None, exc |-> call.exc, tbl |-> tbl,
          called |-> FALSE, args |-> <<>>]
    ELSE IF call.key = None
    THEN [self |-> [call.self EXCEPT !._db_trigger = None], val |-> None, exc |-> "",
          tbl |-> tbl, called |-> FALSE, args |-> <<>>]
    ELSE [self |-> [call.self EXCEPT
                       !._db_trigger = Some(GuardedInsert(tbl, Val(call.key)).row)],
          val |-> Some(GuardedInsert(tbl, Val(call.key)).row), exc |-> "",
          tbl |-> GuardedInsert(tbl, Val(call.key)).tbl,
          called |-> TRUE, args |-> call.args]

\* EventData.db_trigger against the trigger table tbl
EventData_db_trigger(self, tbl) ==
    IF TruthyObj(self._db_trigger)
    THEN [self |-> self, val |-> self._db_trigger, exc |-> "", tbl |-> tbl,
          called |-> FALSE, args |-> <<>>]
    ELSE CorrelateAtOnce(PrepareGetOrCreate(self, _get_db_trigger_class(self)), tbl)

----------------------------------------------------------------------------
(* One event instance in one worker: construction, then any sequence of    *)
(* property accesses, encodings and decodings.                             *)

\* operations on one event instance
MaxOps == 3

Url == "https://github.com/packit/hello-world"
\* a url that names no repository
UrlOfNamespace == "https://github.com/packit"
Row1 == TriggerRow(1, NaturalKey("pull_request", Url, 1))

\* Records stored for the event's commit.
Build(target, status, time) ==
    [cls |-> "CoprBuildTargetModel", target |-> target, status |-> status,
     build_submitted_time |-> time]
Test(target, status, time) ==
    [cls |-> "TFTTestRunTargetModel", target |-> target, status |-> status,
     submitted_time |-> time]
StoredRecords ==
    { <<>>,
      << Build("fedora-rawhide-x86_64", "failure", 1), Build("f34", "failure", 1),
         Test("fedora-rawhide-x86_64", "failure", 1), Test("f34", "failure", 1) >>,
      << Build("fedora-rawhide-x86_64", "failure", 1),
         Build("fedora-rawhide-x86_64", "success", 2), Test("f34", "failure", 2) >> }

\* Event.__init__, and task_accepted_time when the event was accepted for a task.
BaseDict == [created_at |-> Some(DateTime(3)), _db_trigger |-> None]
Timed(d) == {d, d @@ [task_accepted_time |-> Some(DateTime(5))]}

\* AbstractForgeIndependentEvent.__init__
ForgeDict(project_url, pr_id) ==
    BaseDict @@
    [project_url |-> project_url, _pr_id |-> pr_id,
     fail_when_config_file_missing |-> Some(FALSE), actor |-> None,
     _project |-> None, _base_project |-> None, _package_config |-> None,
     _package_config_searched |-> Some(FALSE)]

CheckRerunKey(cls) ==
    CASE cls = "CheckRerunCommitEvent" -> NaturalKey("branch_push", Url, "main")
      [] cls = "CheckRerunPullRequestEvent" -> NaturalKey("pull_request", Url, 1)
      [] cls = "CheckRerunReleaseEvent" -> NaturalKey("release", Url, "0.1.0")

CheckNameJobs == {"rpm-build", "production-build", "testing-farm", "propose-downstream"}

Input(cls, d, tbl, ms) == [cls |-> cls, d |-> d, triggers |-> tbl, models |-> ms]

EventInputs ==
    {Input("InstallationEvent", d, tbl, <<>>) : d \in Timed(BaseDict), tbl \in {{}, {Row1}}}
    \cup
    {Input("AbstractForgeIndependentEvent", d, {}, <<>>) :
        d \in UNION {Timed(ForgeDict(u, None)) : u \in {None, Some(Url)}}}
    \cup
    {Input("PullRequestGithubEvent", d, tbl, <<>>) :
        d \in UNION {Timed(ForgeDict(Some(Url), Some(pr)) @@ [commit_sha |-> Some("12345")]) :
                        pr \in {1, 2}},
        tbl \in {{}, {Row1}}}
    \cup
    {Input("PullRequestCommentGithubEvent", d, tbl, <<>>) :
        d \in UNION {Timed(ForgeDict(Some(Url), Some(pr))
                           @@ [commit_sha |-> Some("12345"),
                               comment |-> Some("/packit build")]) : pr \in {1, 2}},
        tbl \in {{}, {Row1}}}
    \cup
    {Input("PullRequestCommentGithubEvent", d, {Row1}, ms) :
        d \in UNION {Timed(ForgeDict(Some(Url), Some(1))
                           @@ [commit_sha |-> Some("12345"), comment |-> Some(c)]) :
                        c \in {"/packit rebuild-failed", "/packit retest-failed"}},
        ms \in StoredRecords}
    \cup
    {Input("TestingFarmResultsEvent", d, tbl, <<>>) :
        d \in UNION {Timed(ForgeDict(u, pr) @@ [commit_sha |-> sha, pipeline_id |-> Some(1)]) :
                        u \in {None, Some(Url)}, pr \in {None, Some(1)},
                        sha \in {None, Some("12345")}},
        tbl \in {{}, {Row1}}}
    \cup
    {Input("TestingFarmResultsEvent", d, {}, ms) :
        d \in UNION {Timed(ForgeDict(Some(u), None)
                           @@ [commit_sha |-> sha, pipeline_id |-> Some(1)]) :
                        u \in {Url, UrlOfNamespace}, sha \in {None, Some("12345")}},
        ms \in StoredRecords \ {<<>>}}
    \cup
    UNION {
      {Input(cls, d, {TriggerRow(1, CheckRerunKey(cls))}, <<>>) :
        d \in UNION {Timed([ForgeDict(Some(Url), None)
                              EXCEPT !._db_trigger = Some(TriggerRow(1, CheckRerunKey(cls)))]
                           @@ [commit_sha |-> Some("12345"),
                               check_name_job |-> Some(job),
                               check_name_target |-> Some(target)]) :
                        job \in CheckNameJobs, target \in Targets}}
      : cls \in CheckRerunClasses}

St ==
    [ev |-> ev, triggers |-> triggers, calls |-> calls, models |-> models,
     registry |-> registry]

Pre == [d |-> ev.d, calls |-> calls, triggers |-> triggers, data |-> data]

Init ==
    /\ \E i \in EventInputs :
          /\ ev = [cls |-> i.cls, d |-> i.d]
          /\ triggers = i.triggers
          /\ models = i.models
    /\ tret = NoCall
    /\ calls = NoCalls
    /\ ret = [op |-> "init", val |-> None, exc |-> "", pre |-> None]
    /\ wire = None
    /\ data = None
    /\ ops = 0
    /\ race = None
    /\ registry = MAP_EVENT_TO_JOB_CONFIG_TRIGGER_TYPE

\* The state after a call on the event that returned or raised r.
Apply(op, r) ==
    /\ ops < MaxOps
    /\ ev' = r.st.ev
    /\ triggers' = r.st.triggers
    /\ calls' = r.st.calls
    /\ ret' = [op |-> op, val |-> r.val, exc |-> r.exc, pre |-> Pre]
    /\ ops' = ops + 1
    /\ UNCHANGED <<models, tret, race, registry>>

AccessProject == Apply("project", project(St)) /\ UNCHANGED <<wire, data>>

AccessBaseProject == Apply("base_project", base_project(St)) /\ UNCHANGED <<wire, data>>

AccessPackageConfig ==
    \E outcome \in LoaderOutcomes :
        Apply("package_config", package_config(St, outcome)) /\ UNCHANGED <<wire, data>>

AccessDbTrigger == Apply("db_trigger", db_trigger(St)) /\ UNCHANGED <<wire, data>>

AccessJobConfigTriggerType ==
    Apply("job_config_trigger_type", job_config_trigger_type(St)) /\ UNCHANGED <<wire, data>>

\* The state after get_dict returned or raised r, having written its mapping
\* through a copy that shares `shares` with the event's __dict__.
ApplyGetDict(r, shares) ==
    /\ ops < MaxOps
    /\ ev' = [r.st.ev EXCEPT
                 !.d = IF r.exc # "" THEN @ ELSE WrittenThrough(@, r.val, shares)]
    /\ triggers' = r.st.triggers
    /\ calls' = r.st.calls
    /\ ret' = [op |-> "get_dict", val |-> r.val, exc |-> r.exc, pre |-> Pre,
               shares |-> shares]
    /\ wire' = IF r.exc = "" THEN Some(r.val) ELSE wire
    /\ ops' = ops + 1
    /\ UNCHANGED <<data, models, tret, race, registry>>

GetDict ==
    \E order \in Orders(Targets) : ApplyGetDict(get_dict(St, order), deepcopy(ev.d).shares)

\* The caller of get_dict changes the mapping it was given: d["created_at"] = None.
MutateMapping ==
    /\ ret.op = "get_dict"
    /\ ret.exc = ""
    /\ ret' = [ret EXCEPT !.op = "mutate", !.val = Put(@, "created_at", None)]
    /\ ev' = [ev EXCEPT !.d = WrittenThrough(@, ret'.val, ret.shares)]
    /\ UNCHANGED <<triggers, calls, wire, data, ops, models, tret, race, registry>>

FromEventDict ==
    /\ wire # None
    /\ ops < MaxOps
    /\ data' = Some(from_event_dict(Val(wire)))
    /\ ret' = [op |-> "from_event_dict", val |-> None, exc |-> "", pre |-> Pre]
    /\ ops' = ops + 1
    /\ UNCHANGED <<ev, triggers, calls, wire, models, tret, race, registry>>

\* A handler asks the event which targets of its commit have one of the statuses.
CallTfTargetsByStatus ==
    /\ IsForgeIndependent(ev.cls)
    /\ Apply("get_all_tf_targets_by_status",
             get_all_tf_targets_by_status(St, <<"failure">>))
    /\ UNCHANGED <<wire, data>>

CallBuildTargetsByStatus ==
    /\ IsForgeIndependent(ev.cls)
    /\ Apply("get_all_build_targets_by_status",
             get_all_build_targets_by_status(St, <<"failure">>))
    /\ UNCHANGED <<wire, data>>

\* The handler's side: a property of the decoded event data is read.
DataProject ==
    /\ data # None
    /\ ops < MaxOps
    /\ data' = Some(EventData_project(Val(data)).st)
    /\ ret' = [op |-> "data.project", val |-> EventData_project(Val(data)).val,
               exc |-> EventData_project(Val(data)).exc, pre |-> Pre]
    /\ ops' = ops + 1
    /\ UNCHANGED <<ev, triggers, calls, wire, models, tret, race, registry>>

DataDbTrigger ==
    /\ data # None
    /\ ops < MaxOps
    /\ data' = Some(EventData_db_trigger(Val(data), triggers).self)
    /\ triggers' = EventData_db_trigger(Val(data), triggers).tbl
    /\ ret' = [op |-> "data.db_trigger", val |-> EventData_db_trigger(Val(data), triggers).val,
               exc |-> EventData_db_trigger(Val(data), triggers).exc, pre |-> Pre]
    /\ ops' = ops + 1
    /\ UNCHANGED <<ev, calls, wire, models, tret, race, registry>>

\* EventData.get_dict: the handler passes the event data on to the next task.
ApplyDataGetDict(r) ==
    /\ ops < MaxOps
    /\ data' = Some(WrittenThrough(Val(data), r.val, r.shares))
    /\ ret' = [op |-> "data.get_dict", val |-> r.val, exc |-> "", pre |-> Pre,
               shares |-> r.shares]
    /\ ops' = ops + 1
    /\ UNCHANGED <<ev, triggers, calls, wire, models, tret, race, registry>>

DataGetDict ==
    /\ data # None
    /\ \E order \in Orders(Targets) : ApplyDataGetDict(EventData_get_dict(Val(data), order))

\* The caller of EventData.get_dict changes the payload nested in the mapping it was
\* given: d["event_dict"]["created_at"] = None.
MutateDataMapping ==
    /\ ret.op = "data.get_dict"
    /\ ret.val.event_dict # None
    /\ ret' = [ret EXCEPT !.op = "data.mutate",
                          !.val.event_dict = Some(Put(Val(@), "created_at", None))]
    /\ data' = Some(ChangedThrough(Val(data), ret'.val, "event_dict", ret.shares))
    /\ UNCHANGED <<ev, triggers, calls, wire, ops, models, tret, race, registry>>

Next ==
    \/ AccessProject
    \/ AccessBaseProject
    \/ AccessPackageConfig
    \/ AccessDbTrigger
    \/ AccessJobConfigTriggerType
    \/ CallTfTargetsByStatus
    \/ CallBuildTargetsByStatus
    \/ GetDict
    \/ MutateMapping
    \/ FromEventDict
    \/ DataProject
    \/ DataDbTrigger
    \/ DataGetDict
    \/ MutateDataMapping

Spec == Init /\ [][Next]_vars

----------------------------------------------------------------------------
(* Claims about one event instance.                                        *)

\* The state the last operation started from.
PreSt ==
    [ev |-> [cls |-> ev.cls, d |-> ret.pre.d], triggers |-> ret.pre.triggers,
     calls |-> ret.pre.calls, models |-> models, registry |-> registry]

\* The url of the trigger the event resolves to in state st, if one resolves.
ResolvedTriggerUrl(st) ==
    IF st.ev.d._db_trigger # None THEN Some(Val(st.ev.d._db_trigger).project.project_url)
    ELSE IF get_db_trigger(st).exc = "" /\ get_db_trigger(st).val # None
    THEN Some(Val(get_db_trigger(st).val).project.project_url)
    ELSE None

\* commit_sha, pr_id and the three overrides of the decoded data are the event's.
RoundTripOfTheRest ==
    /\ Val(data).commit_sha = Get(ev.d, "commit_sha")
    /\ Val(data).pr_id = Get(ev.d, "_pr_id")
    /\ Val(data).build_targets_override = build_targets_override(St).val
    /\ Val(data).tests_targets_override = tests_targets_override(St).val
    /\ Val(data).branches_override = branches_override(St).val

OverrideOfJob(job) ==
    CASE job \in {"rpm-build", "production-build"} -> "build_targets_override"
      [] job = "testing-farm" -> "tests_targets_override"
      [] job = "propose-downstream" -> "branches_override"

\* C6: the mapping a check-rerun event of check "<job>:<target>" encodes to carries
\* the one-element list [<target>] in the override of that job's kind, for
\* pull-request, branch-push and release triggers alike.
C6_CheckRerunOverride ==
    (ret.op = "get_dict" /\ ev.cls \in CheckRerunClasses) =>
        /\ ret.exc = ""
        /\ Get(ret.val, OverrideOfJob(Val(ev.d.check_name_job)))
              = Some(<< Val(ev.d.check_name_target) >>)

\* C6 witness: a release check-rerun of propose-downstream:f34 was encoded.
C6_Witness ==
    /\ ret.op = "get_dict"
    /\ ev.cls = "CheckRerunReleaseEvent"
    /\ Val(ev.d.check_name_job) = "propose-downstream"
    /\ Get(ret.val, "branches_override") = Some(<<"f34">>)

\* The id of the trigger cached when the last operation started, if any.
CachedTriggerId ==
    IF ret.pre.d._db_trigger # None THEN Some(Val(ret.pre.d._db_trigger).id) ELSE None

\* C7 as stated: get_dict makes no call to get_db_trigger or get-or-create, for
\* every event, and the emitted trigger_id is the id of the trigger cached when
\* get_dict was called, or none.
C7_NeverResolvesAsStated ==
    ret.op = "get_dict" =>
        /\ calls.get_db_trigger = ret.pre.calls.get_db_trigger
        /\ calls.get_or_create = ret.pre.calls.get_or_create
        /\ ret.exc = "" => ret.val.trigger_id = CachedTriggerId

\* C7, amended: get_dict makes no call to get_db_trigger or get-or-create when the
\* event has a project_url or a cached trigger; when it has neither, get_dict
\* resolves the trigger with one get_db_trigger call to fill project_url; the
\* emitted trigger_id is in every case the id of the trigger cached when get_dict
\* was called, or none.
C7_ResolvesOnlyForProjectUrl ==
    ret.op = "get_dict" =>
        /\ IF TruthyStr(Get(ret.pre.d, "project_url")) \/ ret.pre.d._db_trigger # None
           THEN /\ calls.get_db_trigger = ret.pre.calls.get_db_trigger
                /\ calls.get_or_create = ret.pre.calls.get_or_create
           ELSE calls.get_db_trigger = ret.pre.calls.get_db_trigger + 1
        /\ ret.exc = "" => ret.val.trigger_id = CachedTriggerId

\* C7 witness: an event without project_url and without cached trigger was encoded;
\* its trigger was resolved on the way and the emitted trigger_id is none.
C7_Witness ==
    /\ ret.op = "get_dict"
    /\ ret.exc = ""
    /\ ret.pre.d._db_trigger = None
    /\ ev.d._db_trigger # None
    /\ ret.val.trigger_id = None
    /\ ret.val.project_url = Some(Url)

\* The resolver behind each lazy property.
ResolverOf(op) ==
    CASE op = "project" -> "get_project"
      [] op = "base_project" -> "get_base_project"
      [] op = "package_config" -> "get_package_config"
      [] op = "db_trigger" -> "get_db_trigger"

\* C8 as stated: whatever the accesses to project, base_project, package_config and
\* db_trigger, no resolver is invoked more than once, and an access that finds
\* nothing resolved yet invokes it.
C8_ResolversOnce ==
    /\ \A op \in {"project", "base_project", "package_config", "db_trigger"} :
           calls[ResolverOf(op)] <= 1
    /\ (ret.op = "db_trigger" /\ ret.exc = "" /\ ret.pre.d._db_trigger = None
          /\ ret.pre.calls.get_db_trigger = 0) => calls.get_db_trigger = 1

\* C9 as stated: once an access to package_config ended in a fetch that returned
\* nothing or failed, a later access returns none and does not call the loader.
C9_FailedFetchCached ==
    (ret.op = "package_config" /\ ret.pre.calls.loader > 0
       /\ ret.pre.d._package_config = None) =>
        /\ calls.loader = ret.pre.calls.loader
        /\ ret.exc = ""
        /\ ret.val = None

\* The trigger the event resolves to in state st, when resolving does not raise.
ResolvedTrigger(st) ==
    IF st.ev.d._db_trigger # None THEN st.ev.d._db_trigger ELSE get_db_trigger(st).val

PreData == Val(ret.pre.data)

NoResolvableTrigger(st) ==
    /\ st.ev.d._db_trigger = None
    /\ get_db_trigger(st).exc # "" \/ get_db_trigger(st).val = None

TargetCalls == {"get_all_tf_targets_by_status", "get_all_build_targets_by_status"}

\* The last operation returned none and did not query the stored records.
NoneWithoutQuery ==
    /\ ret.exc = ""
    /\ ret.val = None
    /\ calls.get_all_by_commit = ret.pre.calls.get_all_by_commit

\* C15: get_all_tf_targets_by_status and get_all_build_targets_by_status return
\* none without querying the stored records when commit_sha is none, and
\* get_all_build_targets_by_status does so too when the repo of the resolved project
\* is none.
C15_ShortCircuit ==
    /\ (ret.op \in TargetCalls /\ "commit_sha" \in DOMAIN ret.pre.d
           /\ ret.pre.d.commit_sha = None) => NoneWithoutQuery
    /\ (ret.op = "get_all_build_targets_by_status" /\ "commit_sha" \in DOMAIN ret.pre.d
           /\ ret.pre.d.commit_sha # None
           /\ project(PreSt).exc = "" /\ project(PreSt).val # None
           /\ Val(project(PreSt).val).repo = None) => NoneWithoutQuery

\* Build targets were asked of an event with a commit and stored failed builds whose
\* project has no repo name.
C15_Witness ==
    /\ ret.op = "get_all_build_targets_by_status"
    /\ ev.cls = "TestingFarmResultsEvent"
    /\ ret.pre.d.commit_sha # None
    /\ ev.d._project = Some(ProjectHandle(UrlOfNamespace))
    /\ \E i \in DOMAIN models : IsBuildRecord(models[i]) /\ models[i].status = "failure"
    /\ NoneWithoutQuery

\* C16: get_all_build_targets_by_status of an event that has a commit_sha and whose
\* project resolves to none returns none and raises no error.
C16_NoProjectNoOverride ==
    (ret.op = "get_all_build_targets_by_status" /\ "commit_sha" \in DOMAIN ret.pre.d
       /\ ret.pre.d.commit_sha # None
       /\ project(PreSt).exc = "" /\ project(PreSt).val = None) =>
        ret.exc = "" /\ ret.val = None

\* C19: the trigger's job_config_trigger_type and project url are read only from a
\* trigger that a completed resolution returned: nothing is ever read from a none
\* trigger, and an operation that reads from the trigger either found it cached by
\* an earlier resolution or resolved it by a get_db_trigger call that returned it.
C19_ReadsAfterResolution ==
    /\ calls.reads_of_none = 0
    /\ calls.trigger_reads > 0 => ev.d._db_trigger # None
    /\ (ret.op # "init" /\ calls.trigger_reads > ret.pre.calls.trigger_reads) =>
          \/ ret.pre.d._db_trigger # None
          \/ /\ calls.get_db_trigger > ret.pre.calls.get_db_trigger
             /\ get_db_trigger(PreSt).exc = ""
             /\ get_db_trigger(PreSt).val = ev.d._db_trigger

\* The type of an event without a declared type was read from the trigger that the
\* same access resolved first.
C19_Witness ==
    /\ ret.op = "job_config_trigger_type"
    /\ ret.pre.d._db_trigger = None
    /\ calls.get_db_trigger = ret.pre.calls.get_db_trigger + 1
    /\ calls.trigger_reads = ret.pre.calls.trigger_reads + 1
    /\ ret.val = Val(ev.d._db_trigger).job_config_trigger_type

\* What json.dumps accepts among the values of the model: null, whole numbers,
\* booleans, strings and lists of strings.  Values are told apart by their printed
\* form, so that a set, a datetime or a handle is none of these.
JsonStrings ==
    EventClasses \cup ProjectUrls \cup CheckNameJobs \cup Targets
    \cup {"12345", "/packit build", "/packit rebuild-failed", "/packit retest-failed"}
JsonLists == UNION {Orders(S) : S \in SUBSET Targets}
JsonImages ==
    {ToString(n) : n \in 0..(3 * TicksPerSecond)} \cup {ToString(b) : b \in BOOLEAN}
    \cup {ToString(str) : str \in JsonStrings} \cup {ToString(l) : l \in JsonLists}
JsonCompatible(o) == Len(o) = 0 \/ ToString(o[1]) \in JsonImages

CachedHandles == {"_db_trigger", "_project", "_base_project", "_package_config"}

\* C20: the mapping get_dict of a forge-independent event returns has none of the
\* keys _db_trigger, _project, _base_project and _package_config, and each of its
\* values is null, a number, a boolean, a string or a list of strings, whatever
\* was resolved and cached on the event before.
C20_JsonCompatible ==
    (ret.op = "get_dict" /\ ret.exc = "" /\ IsForgeIndependent(ev.cls)) =>
        /\ DOMAIN ret.val \cap CachedHandles = {}
        /\ \A k \in DOMAIN ret.val : JsonCompatible(ret.val[k])

\* get_dict of an accepted event that had its trigger, project and package config
\* cached and that overrides the build targets.
C20_Witness ==
    /\ ret.op = "get_dict"
    /\ ret.exc = ""
    /\ IsForgeIndependent(ev.cls)
    /\ ret.pre.d._db_trigger # None
    /\ ret.pre.d._project # None
    /\ ret.pre.d._package_config # None
    /\ "task_accepted_time" \in DOMAIN ret.pre.d
    /\ "build_targets_override" \in DOMAIN ret.val

\* The lazily computed fields of an event and of the decoded event data.
CacheFields == CachedHandles \cup {"_package_config_searched"}

\* The objects' fields a and b are the same but for the caches.
SameFields(a, b) ==
    /\ DOMAIN a = DOMAIN b
    /\ \A k \in DOMAIN a \ CacheFields : a[k] = b[k]

\* C24: after Event.get_dict or EventData.get_dict returned, and after the caller
\* changed the returned mapping or the payload nested in it, the event, or the
\* event data, has the fields it had before the call with their values, the lazily
\* computed caches aside.
C24_GetDictLeavesTheFields ==
    /\ (ret.op \in {"get_dict", "mutate"} /\ ret.exc = "") => SameFields(ev.d, ret.pre.d)
    /\ ret.op \in {"data.get_dict", "data.mutate"} => SameFields(Val(data), PreData)

\* The payload nested in the mapping EventData.get_dict returned was changed and
\* is no longer the payload the event data holds.
C24_Witness ==
    /\ ret.op = "data.mutate"
    /\ Val(ret.val.event_dict).created_at = None
    /\ Val(Val(data).event_dict).created_at # None
    /\ Val(data).build_targets_override # None

OverrideNames == {"build_targets_override", "tests_targets_override", "branches_override"}

\* Mapping m encodes the override o under name: a set as a list of its members, each
\* once; none by leaving the key out or by none.
EncodesOverride(m, name, o) ==
    IF o # None
    THEN /\ Get(m, name) # None
         /\ Range(Val(m[name])) = Val(o)
         /\ Len(Val(m[name])) = Cardinality(Val(o))
    ELSE Get(m, name) = None

\* C21: the mapping of Event.get_dict and of EventData.get_dict holds, for each of
\* the three overrides, a list with exactly the members of the override when it is
\* a set, each once; when the override is none the key is absent or none, never an
\* empty list.
C21_OverridesEncoded ==
    /\ (ret.op = "get_dict" /\ ret.exc = "") =>
          \A name \in OverrideNames :
              EncodesOverride(ret.val, name, OverrideProperty(name, PreSt).val)
    /\ ret.op = "data.get_dict" =>
          \A name \in OverrideNames : EncodesOverride(ret.val, name, PreData[name])

\* Event data that overrides the build targets and not the test targets was
\* encoded, after the event it was decoded from had been encoded the same way.
C21_Witness ==
    /\ ret.op = "data.get_dict"
    /\ PreData.build_targets_override # None
    /\ PreData.tests_targets_override = None
    /\ Get(ret.val, "build_targets_override") # None
    /\ build_targets_override(St).val = PreData.build_targets_override
    /\ Get(Val(wire), "build_targets_override") # None

\* n is the number of whole seconds from the epoch to the instant dt.
WholeSecondsOf(n, dt) ==
    n * TicksPerSecond <= dt.ticks /\ dt.ticks < (n + 1) * TicksPerSecond

\* C22: in the mapping of get_dict, created_at is the number of whole epoch seconds
\* of the event's created_at, and task_accepted_time the number of whole epoch
\* seconds of the event's task_accepted_time, or none when the event has none.
C22_TimestampsEncoded ==
    (ret.op = "get_dict" /\ ret.exc = "") =>
        /\ ret.val.created_at # None
        /\ WholeSecondsOf(Val(ret.val.created_at), Val(ret.pre.d.created_at))
        /\ IF Get(ret.pre.d, "task_accepted_time") = None
           THEN ret.val.task_accepted_time = None
           ELSE /\ ret.val.task_accepted_time # None
                /\ WholeSecondsOf(Val(ret.val.task_accepted_time),
                                  Val(ret.pre.d.task_accepted_time))

\* An accepted event created between two whole seconds was encoded.
C22_Witness ==
    /\ ret.op = "get_dict"
    /\ ret.exc = ""
    /\ Val(ret.pre.d.created_at).ticks % TicksPerSecond # 0
    /\ Get(ret.pre.d, "task_accepted_time") # None
    /\ ret.val.task_accepted_time # None
    /\ Val(ret.val.created_at) # Val(ret.val.task_accepted_time)

----------------------------------------------------------------------------
(* Workers, each handling a decoded event, correlating against one table.  *)

\* The workers, and how many accesses to db_trigger and new tasks there are in all.
MaxWorkers == 2
MaxRaceOps == 3

Workers == 1..MaxWorkers

\* Event mappings as get_dict emits them.
WireBase(event_type, project_url) ==
    [event_type |-> Some(event_type), project_url |-> project_url,
     trigger_id |-> None, created_at |-> Some(1), task_accepted_time |-> None]

RaceWire ==
    {WireBase(cls, Some(Url)) @@ [_pr_id |-> Some(1), commit_sha |-> Some("12345")] :
        cls \in {"PullRequestGithubEvent", "PullRequestCommentGithubEvent"}}
    \cup
    {WireBase("PullRequestGithubEvent", None)
        @@ [_pr_id |-> Some(1), commit_sha |-> Some("12345")]}
    \cup
    {WireBase("PushGitHubEvent", Some(Url)) @@ [git_ref |-> Some("main"), commit_sha |-> Some(c)] :
        c \in {"12345", "67890"}}
    \cup
    {WireBase("ReleaseEvent", Some(Url))
        @@ [tag_name |-> Some("0.1.0"), commit_sha |-> Some("12345")]}
    \cup
    {WireBase("InstallationEvent", None)}

\* The identifying fields of a decoded event: the trigger kind its type stands for,
\* the project, and the kind's own field.
EventKey(self) ==
    CASE Val(self.event_type) \in {"PullRequestGithubEvent", "PullRequestCommentGithubEvent"} ->
           [kind |-> "pull_request", project_url |-> self.project_url,
            pr_id |-> self.pr_id, branch_name |-> None, tag_name |-> None]
      [] Val(self.event_type) = "PushGitHubEvent" ->
           [kind |-> "branch_push", project_url |-> self.project_url,
            pr_id |-> None, branch_name |-> self.git_ref, tag_name |-> None]
      [] Val(self.event_type) = "ReleaseEvent" ->
           [kind |-> "release", project_url |-> self.project_url,
            pr_id |-> None, branch_name |-> None, tag_name |-> self.tag_name]
      [] OTHER ->
           [kind |-> "none", project_url |-> self.project_url,
            pr_id |-> None, branch_name |-> None, tag_name |-> None]

\* A worker that has just decoded its event.
Decoded(event) ==
    [self |-> from_event_dict(event), pc |-> "idle", key |-> None, missed |-> FALSE,
     ret |-> None, exc |-> ""]

InitRace ==
    /\ race \in [workers : [Workers -> {Decoded(event) : event \in RaceWire}], log : {<<>>}]
    /\ triggers \in {{}, {Row1}}
    /\ models = <<>> /\ tret = NoCall
    /\ ev = None /\ calls = None /\ ret = None /\ wire = None /\ data = None
    /\ ops = 0
    /\ registry = MAP_EVENT_TO_JOB_CONFIG_TRIGGER_TYPE

\* What worker w leaves when its access to db_trigger returns row (or none).
Returned(w, self, row, created) ==
    [workers |-> [race.workers EXCEPT ![w] =
                     [@ EXCEPT !.self = [self EXCEPT !._db_trigger = row],
                               !.pc = "done", !.ret = row, !.exc = "", !.key = None]],
     log |-> IF row = None THEN race.log
             ELSE Append(race.log, [w |-> w, fields |-> EventKey(self),
                                    id |-> Val(row).id, created |-> created])]

\* EventData.db_trigger up to the storage call of get_or_create.
StartCorrelation(w) ==
    /\ race.workers[w].pc \in {"idle", "done"}
    /\ ops < MaxRaceOps
    /\ ops' = ops + 1
    /\ LET self == race.workers[w].self
           call == PrepareGetOrCreate(self, _get_db_trigger_class(self))
       IN race' =
            IF TruthyObj(self._db_trigger) THEN Returned(w, self, self._db_trigger, FALSE)
            ELSE IF call.exc # ""
            THEN [race EXCEPT !.workers[w] =
                     [@ EXCEPT !.self = call.self, !.pc = "done", !.ret = None,
                               !.exc = call.exc]]
            ELSE IF call.key = None THEN Returned(w, call.self, None, FALSE)
            ELSE [race EXCEPT !.workers[w] =
                     [@ EXCEPT !.self = call.self, !.pc = "lookup", !.key = call.key,
                               !.missed = FALSE, !.ret = None, !.exc = ""]]
    /\ UNCHANGED <<models, tret, ev, triggers, calls, ret, wire, data, registry>>

\* get_or_create, first half: the row of the key is looked up.
StorageLookup(w) ==
    /\ race.workers[w].pc = "lookup"
    /\ race' =
         IF Lookup(triggers, Val(race.workers[w].key)) # None
         THEN Returned(w, race.workers[w].self,
                       Lookup(triggers, Val(race.workers[w].key)), FALSE)
         ELSE [race EXCEPT !.workers[w].pc = "insert", !.workers[w].missed = TRUE]
    /\ UNCHANGED <<models, tret, ev, triggers, calls, ret, wire, data, ops, registry>>

\* get_or_create, second half: the lookup found nothing, the row is inserted under
\* the unique constraint of the table.
StorageInsert(w) ==
    /\ race.workers[w].pc = "insert"
    /\ triggers' = GuardedInsert(triggers, Val(race.workers[w].key)).tbl
    /\ race' = Returned(w, race.workers[w].self,
                        Some(GuardedInsert(triggers, Val(race.workers[w].key)).row),
                        GuardedInsert(triggers, Val(race.workers[w].key)).created)
    /\ UNCHANGED <<models, tret, ev, calls, ret, wire, data, ops, registry>>

\* The worker takes its next task: another event mapping, decoded afresh.
NextTask(w) ==
    /\ race.workers[w].pc = "done"
    /\ ops < MaxRaceOps
    /\ \E event \in RaceWire : race' = [race EXCEPT !.workers[w] = Decoded(event)]
    /\ ops' = ops + 1
    /\ UNCHANGED <<models, tret, ev, triggers, calls, ret, wire, data, registry>>

NextRace ==
    \E w \in Workers :
        \/ StartCorrelation(w)
        \/ StorageLookup(w)
        \/ StorageInsert(w)
        \/ NextTask(w)

SpecRace == InitRace /\ [][NextRace]_vars

----------------------------------------------------------------------------
(* Claims about trigger correlation.                                       *)

\* C4: of two correlations made with the same identifying fields, by the same or by
\* different event instances, the later one returns the trigger identity the
\* earlier one returned and creates no row.
C4_CorrelationIdempotent ==
    \A i, j \in DOMAIN race.log :
        (i < j /\ race.log[i].fields = race.log[j].fields) =>
            /\ race.log[j].id = race.log[i].id
            /\ ~race.log[j].created

\* C4 witness: two workers correlated events of different types with the same
\* identifying fields; the first created the trigger, the second got the same one.
C4_Witness ==
    /\ Len(race.log) >= 2
    /\ race.log[1].w # race.log[2].w
    /\ race.log[1].fields = race.log[2].fields
    /\ race.log[1].created
    /\ race.log[2].id = race.log[1].id
    /\ race.workers[1].self.event_type # race.workers[2].self.event_type

\* C5: in every reachable state the trigger table holds at most one trigger per
\* natural key, and a worker whose correlation returned holds the one trigger
\* stored under the identifying fields of its event.
C5_OneTriggerPerKey ==
    /\ \A r1, r2 \in triggers : r1.key = r2.key => r1 = r2
    /\ \A w \in Workers :
          (race.workers[w].pc = "done" /\ race.workers[w].ret # None) =>
              /\ Val(race.workers[w].ret) \in triggers
              /\ Val(race.workers[w].ret).key.kind = EventKey(race.workers[w].self).kind
              /\ Some(Val(race.workers[w].ret).key.project_url)
                    = EventKey(race.workers[w].self).project_url
              /\ Val(race.workers[w].ret).key.pr_id = EventKey(race.workers[w].self).pr_id
              /\ Val(race.workers[w].ret).key.branch_name
                    = EventKey(race.workers[w].self).branch_name
              /\ Val(race.workers[w].ret).key.tag_name
                    = EventKey(race.workers[w].self).tag_name

\* C5 witness: two workers raced on one key, both lookups found nothing, and both
\* hold the same trigger.
C5_Witness ==
    /\ race.workers[1].pc = "done" /\ race.workers[2].pc = "done"
    /\ race.workers[1].missed /\ race.workers[2].missed
    /\ race.workers[1].ret # None
    /\ race.workers[1].ret = race.workers[2].ret
    /\ EventKey(race.workers[1].self) = EventKey(race.workers[2].self)

----------------------------------------------------------------------------
(* EventData.from_event_dict applied to event mappings of every shape.     *)

\* The mappings with key k bound to one of vals, and the mapping without it.
Maybe(k, vals) == {<<>>} \cup {[x \in {k} |-> v] : v \in vals}

\* Event mappings as a task may receive them: either spelling of the actor and of
\* the pull-request id, each absent, null or any value of its type.
DecodeInputs ==
    {a @@ b @@ c @@ d @@ t @@ o :
        a \in Maybe("user_login", {None, Some(""), Some("alice")}),
        b \in Maybe("actor", {None, Some(""), Some("bob")}),
        c \in Maybe("_pr_id", {None, Some(0), Some(1)}),
        d \in Maybe("pr_id", {None, Some(0), Some(2)}),
        t \in Maybe("task_accepted_time", {None, Some(0), Some(3)}),
        o \in Maybe("build_targets_override", {None, Some(<<>>), Some(<<"f34">>)})}

\* Event mappings of a task whose handler correlates the event: those the workers
\* get, a pull-request event whose mapping has no pull-request id, and an event of
\* a type that events/__init__.py does not export.
CorrelationInputs ==
    RaceWire
    \cup
    {WireBase("PullRequestGithubEvent", Some(Url)) @@ [commit_sha |-> Some("12345")]}
    \cup
    {WireBase("NoSuchEvent", Some(Url)) @@ [_pr_id |-> Some(1), commit_sha |-> Some("12345")]}

InitDecode ==
    /\ wire \in {Some(event) : event \in DecodeInputs \cup CorrelationInputs}
    /\ data = None
    /\ ret = [op |-> "init", val |-> None, exc |-> "", pre |-> None]
    /\ models = <<>> /\ tret = NoCall
    /\ ev = None /\ calls = None /\ race = None
    /\ triggers \in IF Val(wire) \in CorrelationInputs THEN {{}, {Row1}} ELSE {{}}
    /\ ops = 0
    /\ registry = MAP_EVENT_TO_JOB_CONFIG_TRIGGER_TYPE

\* EventData.from_event_dict(event)
DecodeMapping ==
    /\ ops = 0
    /\ data' = Some(from_event_dict(Val(wire)))
    /\ ret' = [op |-> "from_event_dict", val |-> None, exc |-> "", pre |-> None]
    /\ ops' = 1
    /\ UNCHANGED <<models, tret, ev, triggers, calls, race, wire, registry>>

\* The handler reads db_trigger of the decoded event data; a task's mapping names
\* its event type.
CorrelateDecoded ==
    /\ data # None
    /\ Val(data).event_type # None
    /\ ops < MaxOps
    /\ data' = Some(EventData_db_trigger(Val(data), triggers).self)
    /\ triggers' = EventData_db_trigger(Val(data), triggers).tbl
    /\ ret' = [op |-> "db_trigger",
               val |-> EventData_db_trigger(Val(data), triggers).val,
               exc |-> EventData_db_trigger(Val(data), triggers).exc,
               called |-> EventData_db_trigger(Val(data), triggers).called,
               args |-> EventData_db_trigger(Val(data), triggers).args,
               pre |-> [data |-> Val(data), triggers |-> triggers]]
    /\ ops' = ops + 1
    /\ UNCHANGED <<models, tret, ev, calls, race, wire, registry>>

\* The handler encodes the decoded event data for the next task.
EncodeDecoded ==
    /\ data # None
    /\ ops < MaxOps
    /\ \E order \in Orders(Targets) :
          /\ data' = Some(WrittenThrough(Val(data), EventData_get_dict(Val(data), order).val,
                                         EventData_get_dict(Val(data), order).shares))
          /\ ret' = [op |-> "data.get_dict",
                     val |-> EventData_get_dict(Val(data), order).val, exc |-> "",
                     shares |-> EventData_get_dict(Val(data), order).shares,
                     pre |-> [data |-> Val(data), triggers |-> triggers]]
    /\ ops' = ops + 1
    /\ UNCHANGED <<models, tret, ev, triggers, calls, race, wire, registry>>

NextDecode == DecodeMapping \/ CorrelateDecoded \/ EncodeDecoded

SpecDecode == InitDecode /\ [][NextDecode]_vars

\* The mapping has key k (with a value, not null) and does not have key other.
OnlyKey(k, other) == Get(Val(wire), k) # None /\ Get(Val(wire), other) = None

\* C13 as stated: a mapping that has only 'user_login' or only 'actor' decodes to an
\* EventData whose actor is that value, and one that has only '_pr_id' or only
\* 'pr_id' to an EventData whose pr_id is that value, for every value.
C13_BothSpellingsAsStated ==
    ret.op = "from_event_dict" =>
        /\ OnlyKey("user_login", "actor") => Val(data).actor = Val(wire).user_login
        /\ OnlyKey("actor", "user_login") => Val(data).actor = Val(wire).actor
        /\ OnlyKey("_pr_id", "pr_id") => Val(data).pr_id = Val(wire)._pr_id
        /\ OnlyKey("pr_id", "_pr_id") => Val(data).pr_id = Val(wire).pr_id

\* C13, amended: a mapping that has only 'actor' or only 'pr_id' decodes to that
\* value, for every value; a mapping that has only 'user_login' or only '_pr_id'
\* decodes to that value when it is a non-empty string or a non-zero id, and to
\* none when it is the empty string or zero.
C13_BothSpellings ==
    ret.op = "from_event_dict" =>
        /\ OnlyKey("user_login", "actor") =>
              Val(data).actor = (IF Val(wire).user_login = Some("") THEN None
                                 ELSE Val(wire).user_login)
        /\ OnlyKey("actor", "user_login") => Val(data).actor = Val(wire).actor
        /\ OnlyKey("_pr_id", "pr_id") =>
              Val(data).pr_id = (IF Val(wire)._pr_id = Some(0) THEN None
                                 ELSE Val(wire)._pr_id)
        /\ OnlyKey("pr_id", "_pr_id") => Val(data).pr_id = Val(wire).pr_id

\* C13 witness: a mapping with only the legacy 'user_login' and only 'pr_id' was
\* decoded, and both values arrived.
C13_Witness ==
    /\ ret.op = "from_event_dict"
    /\ OnlyKey("user_login", "actor")
    /\ OnlyKey("pr_id", "_pr_id")
    /\ Val(data).actor = Some("alice")
    /\ Val(data).pr_id = Some(2)

\* The event type names no known class, or none of the ancestors of its class
\* derives directly from the mixin base.
NoTriggerBacking(self) ==
    \/ Val(self.event_type) \notin EventClasses
    \/ \A c \in Ancestors(Val(self.event_type)) \ {Val(self.event_type)} :
          c \notin AddDbTriggerClasses

\* C17: db_trigger of decoded event data without trigger backing is none, no error
\* is raised, get-or-create is not called and the trigger table is left as it was.
C17_NoBackingIsNone ==
    (ret.op = "db_trigger" /\ NoTriggerBacking(ret.pre.data)) =>
        /\ ret.val = None
        /\ ret.exc = ""
        /\ ~ret.called
        /\ triggers = ret.pre.triggers
        /\ Val(data)._db_trigger = None

\* An event of an unknown type that carries the key of a stored pull-request trigger
\* was correlated; the result is none.
C17_Witness ==
    /\ ret.op = "db_trigger"
    /\ ret.pre.data.event_type = Some("NoSuchEvent")
    /\ ret.pre.data.pr_id = Some(1)
    /\ triggers = {Row1}
    /\ ret.val = None

\* The event attribute of a name is absent: the field is none, or the repository
\* cannot be read because the project does not resolve to one.
AttributeAbsent(self, name) ==
    CASE name = "repo_namespace" ->
           self.project_url = None \/ ProjectHandle(Val(self.project_url)).namespace = None
      [] name = "repo_name" ->
           self.project_url = None \/ ProjectHandle(Val(self.project_url)).repo = None
      [] OTHER -> name \notin DOMAIN self \/ self[name] = None

\* The value of the event attribute of a name that is not absent.
AttributeValue(self, name) ==
    CASE name = "repo_namespace" -> ProjectHandle(Val(self.project_url)).namespace
      [] name = "repo_name" -> ProjectHandle(Val(self.project_url)).repo
      [] OTHER -> self[name]

\* C18: correlating trigger-backed event data calls get-or-create with exactly the
\* declared parameter names, each bound to the event attribute of that name; when
\* one of these attributes is absent, get-or-create is not called, the access to
\* db_trigger ends with an error and the trigger table is left as it was.
C18_ExactArgumentsOrError ==
    (ret.op = "db_trigger" /\ ret.pre.data._db_trigger = None
       /\ _get_db_trigger_class(ret.pre.data) # None) =>
        /\ ret.called =>
              /\ DOMAIN ret.args
                    = Range(GetOrCreateArgs(Val(_get_db_trigger_class(ret.pre.data))))
              /\ \A a \in DOMAIN ret.args :
                    /\ ~AttributeAbsent(ret.pre.data, a)
                    /\ ret.args[a] = AttributeValue(ret.pre.data, a)
        /\ (\E a \in Range(GetOrCreateArgs(Val(_get_db_trigger_class(ret.pre.data)))) :
                AttributeAbsent(ret.pre.data, a)) =>
              /\ ~ret.called
              /\ ret.exc # ""
              /\ ret.val = None
              /\ triggers = ret.pre.triggers

\* The absolute UTC instant t seconds after the epoch.
InstantOf(t) == [ticks |-> t * TicksPerSecond]

\* task_accepted_time of the mapping that was decoded.
AcceptedAt == Get(Val(wire), "task_accepted_time")

\* C23 as stated: a mapping whose task_accepted_time is t epoch seconds, t >= 0,
\* decodes to the instant t and EventData.get_dict of the result yields t again;
\* none stays none both ways.
C23_AcceptedTimeRoundTripAsStated ==
    /\ ret.op = "from_event_dict" =>
          Val(data).task_accepted_time
            = (IF AcceptedAt = None THEN None ELSE Some(InstantOf(Val(AcceptedAt))))
    /\ ret.op = "data.get_dict" => ret.val.task_accepted_time = AcceptedAt

\* C23, amended: the same for t > 0; a mapping whose task_accepted_time is 0
\* decodes to none, and none is what get_dict of the result yields.
C23_AcceptedTimeRoundTrip ==
    /\ ret.op = "from_event_dict" =>
          Val(data).task_accepted_time
            = (IF AcceptedAt = None \/ AcceptedAt = Some(0) THEN None
               ELSE Some(InstantOf(Val(AcceptedAt))))
    /\ ret.op = "data.get_dict" =>
          ret.val.task_accepted_time
            = (IF AcceptedAt = None \/ AcceptedAt = Some(0) THEN None ELSE AcceptedAt)

\* A mapping accepted after the epoch was decoded and encoded again.
C23_Witness ==
    /\ ret.op = "data.get_dict"
    /\ AcceptedAt # None
    /\ Val(AcceptedAt) > 0
    /\ ret.val.task_accepted_time = AcceptedAt
    /\ Val(data).task_accepted_time = Some(InstantOf(Val(AcceptedAt)))

\* C25: each of the three override fields of decoded event data is none or a
\* non-empty set, and an empty list in the mapping decodes to none.
C25_OverrideNoneOrNonEmpty ==
    data # None =>
        \A name \in OverrideNames :
            /\ Val(data)[name] = None \/ Val(Val(data)[name]) # {}
            /\ Get(Val(wire), name) = Some(<<>>) => Val(data)[name] = None

\* A mapping with an empty list of build targets was decoded.
C25_Witness ==
    /\ ret.op = "from_event_dict"
    /\ Get(Val(wire), "build_targets_override") = Some(<<>>)
    /\ Val(data).build_targets_override = None

----------------------------------------------------------------------------
(* The static trigger-type table under any registrations.                  *)

\* how many classes are decorated with use_for_job_config_trigger
MaxRegistered == 2

\* Classes a module may decorate, and the types it may declare for them.
RegistrableClasses ==
    {"AbstractGithubEvent", "AbstractPRCommentEvent", "PullRequestCommentGithubEvent",
     "CheckRerunEvent", "CheckRerunCommitEvent"}
TriggerTypes == {"commit", "pull_request", "release"}

\* use_for_job_config_trigger(trigger_type)(kls): MAP[kls] = trigger_type.  A dict
\* keeps a key that is assigned again at its place.
use_for_job_config_trigger(m, kls, trigger_type) ==
    IF \E i \in DOMAIN m : m[i][1] = kls
    THEN [i \in DOMAIN m |-> IF m[i][1] = kls THEN <<kls, trigger_type>> ELSE m[i]]
    ELSE Append(m, <<kls, trigger_type>>)

\* The events whose type is asked: instances of one, of several and of none of the
\* classes that may be decorated.
RegistryEvents ==
    {i \in EventInputs :
        /\ i.cls \in {"PullRequestCommentGithubEvent", "CheckRerunCommitEvent",
                      "InstallationEvent"}
        /\ i.models = <<>>}

InitRegistry ==
    /\ \E i \in RegistryEvents :
          /\ ev = [cls |-> i.cls, d |-> i.d]
          /\ triggers = i.triggers
          /\ models = i.models
    /\ registry = <<>>
    /\ tret = NoCall
    /\ calls = NoCalls
    /\ ret = [op |-> "init", val |-> None, exc |-> "", pre |-> None]
    /\ wire = None /\ data = None /\ race = None
    /\ ops = 0

\* A module is imported: its decorator registers a class, before any event is asked.
Register ==
    /\ ops = 0
    /\ Len(registry) < MaxRegistered
    /\ \E kls \in RegistrableClasses, trigger_type \in TriggerTypes :
          registry' = use_for_job_config_trigger(registry, kls, trigger_type)
    /\ UNCHANGED <<models, tret, ev, triggers, calls, race, ret, wire, data, ops>>

NextRegistry == Register \/ AccessJobConfigTriggerType

SpecRegistry == InitRegistry /\ [][NextRegistry]_vars

\* C26: job_config_trigger_type of an event that is an instance of a registered
\* class, be it the event's own class or an ancestor, is the type of the first
\* registered class the event is an instance of, whatever more specific class was
\* registered later, and no trigger is looked up for it.
C26_FirstRegisteredInstanceOf ==
    ret.op = "job_config_trigger_type" =>
        \A i \in DOMAIN registry :
            (/\ isinstance(ev.cls, registry[i][1])
             /\ \A j \in 1..(i - 1) : ~isinstance(ev.cls, registry[j][1])) =>
                /\ ret.exc = ""
                /\ ret.val = Some(registry[i][2])
                /\ calls.get_db_trigger = ret.pre.calls.get_db_trigger
                /\ calls.get_or_create = ret.pre.calls.get_or_create

\* An ancestor of the event's class was registered first and the event's own class
\* second, with another type; the event got the ancestor's type.
C26_Witness ==
    /\ ret.op = "job_config_trigger_type"
    /\ Len(registry) = 2
    /\ registry[1][1] # ev.cls
    /\ isinstance(ev.cls, registry[1][1])
    /\ registry[2][1] = ev.cls
    /\ registry[1][2] # registry[2][2]
    /\ ret.val = Some(registry[1][2])

====
